---- MODULE Spec2Model ----
(***************************************************************************)
(* Re-Sizer (src/ReSizer/resizer_app.py): the batch pipeline of            *)
(* ProcessingThread.run over a ThreadPoolExecutor, the per-file transform  *)
(* ImageProcessor.process_image, and the start/finish handlers of          *)
(* ReSizerApp.                                                             *)
(*                                                                         *)
(* A candidate file is numbered 1..MaxFiles; file p has stem (p+1) \div 2  *)
(* and suffix jpg (p odd) or png (p even), so files 1 and 2 are a.jpg and  *)
(* a.png of one directory and file 3 would be b.jpg.  find_images returns  *)
(* the files in rglob's order, which the model fixes as ascending p.       *)
(***************************************************************************)
EXTENDS Integers, Sequences, FiniteSets

\* ---------------------------------------------------------------- bounds
MaxFiles == 2
MaxWorkers == 2
MaxRuns == 2

\* ------------------------------------------------------- program constants
MAX_DIMENSION == 3840

SUPPORTED_FORMATS == {"jpg", "png"}

\* --------------------------------------------------------------- the files
Files == 1 .. MaxFiles

Stem(p) == (p + 1) \div 2

Suffix(p) == IF p % 2 = 1 THEN "jpg" ELSE "png"

Stems == {Stem(p) : p \in Files}

file_path(p) == <<Stem(p), Suffix(p)>>

\* Path.with_suffix('.webp')
with_suffix(path, suffix) == <<path[1], suffix>>

output_path(p) == with_suffix(file_path(p), "webp")

AllPaths == Stems \X (SUPPORTED_FORMATS \cup {"webp"})

Absent == [w |-> 0, h |-> 0]

\* A file Image.open cannot read (truncated, not an image, no permission)
Corrupt == [w |-> -1, h |-> -1]

\* The sizes an image on disk is drawn from: exactly at the limit
\* (landscape) and above it (portrait).
Sizes == { [w |-> 3840, h |-> 2160], [w |-> 4320, h |-> 7680] }

Max(a, b) == IF a >= b THEN a ELSE b

\* ---------------------------------------------- Python float arithmetic
\* Lines 68 and 71 compute int((smaller / larger) * MAX_DIMENSION) in IEEE 754
\* double precision. A double is held here as a 53-bit significand in two
\* limbs, hi * 2^26 + lo, and a binary exponent, so that no intermediate value
\* leaves the 32-bit integers.
\* the least t >= from with num * 2^t >= den
RECURSIVE BinaryExponent(_, _, _)
BinaryExponent(num, den, from) ==
  IF num * 2^from >= den THEN from ELSE BinaryExponent(num, den, from + 1)

\* long division of r by den for den <= r < 2 * den < 2^18: the 53 quotient
\* bits, the leading 1 and four digits of 13 bits, the first 27 bits in hi and
\* the last 26 in lo; rem2 is twice the final remainder
LongDivision(r, den) ==
  LET r1 == (r - den) * 2^13
      r2 == (r1 % den) * 2^13
      r3 == (r2 % den) * 2^13
      r4 == (r3 % den) * 2^13
  IN  [hi   |-> 2^26 + (r1 \div den) * 2^13 + (r2 \div den),
       lo   |-> (r3 \div den) * 2^13 + (r4 \div den),
       rem2 |-> 2 * (r4 % den)]

\* the significand plus one unit in the last place, the low limb of base `base`
Increment(m, base) ==
  IF m.lo + 1 = base THEN [hi |-> m.hi + 1, lo |-> 0]
                     ELSE [hi |-> m.hi, lo |-> m.lo + 1]

\* n = OddPart(n) * 2^TwoExponent(n)
RECURSIVE OddPart(_)
OddPart(n) == IF n % 2 = 1 THEN n ELSE OddPart(n \div 2)

RECURSIVE TwoExponent(_)
TwoExponent(n) == IF n % 2 = 1 THEN 0 ELSE 1 + TwoExponent(n \div 2)

\* the bits a product whose high limb is h has beyond 53 (at most 4: the odd
\* part of MAX_DIMENSION is 15)
RECURSIVE DropBits(_, _)
DropBits(h, d) == IF d = 4 \/ h < 2^(27 + d) THEN d ELSE DropBits(h, d + 1)

\* Python's num / den for 1 <= num <= den: the quotient rounded to nearest,
\* ties to even; its value is (hi * 2^26 + lo) * 2^-(52 + exp)
float_div(num, den) ==
  LET t  == BinaryExponent(num, den, 0)
      q  == LongDivision(num * 2^t, den)
      up == q.rem2 > den \/ (q.rem2 = den /\ q.lo % 2 = 1)
      m  == IF up THEN Increment(q, 2^26) ELSE q
  IN  [hi |-> m.hi, lo |-> m.lo, exp |-> t]

\* Python's int(q * MAX_DIMENSION): the product by the odd part rounded to 53
\* bits (nearest, ties to even), the power of two exact, the result truncated
int_scaled(q) ==
  LET odd  == OddPart(MAX_DIMENSION)
      lo15 == odd * q.lo
      hi15 == odd * q.hi + lo15 \div 2^26
      low  == lo15 % 2^26
      d    == DropBits(hi15, 0)
      rem  == low % 2^d
      y    == low \div 2^d
      up   == d > 0 /\ (rem > 2^(d - 1) \/ (rem = 2^(d - 1) /\ y % 2 = 1))
      m    == IF up THEN Increment([hi |-> hi15, lo |-> y], 2^(26 - d))
                    ELSE [hi |-> hi15, lo |-> y]
      k    == 26 + q.exp - TwoExponent(MAX_DIMENSION)
  IN  IF k >= 31 THEN 0 ELSE m.hi \div 2^k

\* process_image, lines 65-71: the new dimensions
NewSize(img) ==
  IF img.w > img.h
    THEN [w |-> MAX_DIMENSION, h |-> int_scaled(float_div(img.h, img.w))]
    ELSE [w |-> int_scaled(float_div(img.w, img.h)), h |-> MAX_DIMENSION]

\* line 55 with < for <=
WithinLimit_Strict(img) == Max(img.w, img.h) < MAX_DIMENSION

\* process_image, line 55: no resizing needed
WithinLimit(img) == Max(img.w, img.h) <= MAX_DIMENSION

VARIABLES
  fs,              \* the folder: path -> image size, Absent when no file
  controls,        \* start_button, browse_button, folder_input enabled
  warning,         \* the QMessageBox.warning of the last start_processing
  pc,              \* position of ProcessingThread.run
  is_cancelled,
  max_workers,
  images,          \* the result of find_images
  wpc,             \* per file: position of its work item / process_image
  res,             \* per file: the value its future completed with
  numThreads,      \* len(executor._threads)
  idle,            \* executor._idle_semaphore
  yielded,         \* the futures as_completed has yielded
  cur,             \* the future of the current loop iteration
  processed_count,
  total_resized,
  total_skipped,
  events,          \* the signals emitted by the run, in order
  collected,       \* per file: how many outcome log lines it got
  fs0,             \* the folder as it was when the run started
  cancel_at,       \* what the loop had counted and tested when cancel was called
  runs,            \* the ProcessingThread objects created so far
  folder_input     \* the text of folder_input at the last start_processing

vars ==
  << fs, controls, warning, pc, is_cancelled, max_workers, images, wpc, res,
     numThreads, idle, yielded, cur, processed_count, total_resized,
     total_skipped, events, collected, fs0, cancel_at,
                  runs, folder_input >>

\* ------------------------------------------------------------- the signals
Log(m) == [type |-> "log", msg |-> m, a |-> 0, b |-> 0, c |-> 0]

Progress(n, t) == [type |-> "progress", msg |-> "", a |-> n, b |-> t, c |-> 0]

Finished(n, r, s) == [type |-> "finished", msg |-> "", a |-> n, b |-> r, c |-> s]

NotCancelled == [collected |-> -1, tested |-> -1]

\* ------------------------------------------------------------------- Init
Init ==
  /\ fs \in { f \in [AllPaths -> Sizes \cup {Absent, Corrupt}] :
                \A path \in AllPaths :
                  path \notin {file_path(p) : p \in Files} => f[path] = Absent }
  /\ controls = TRUE
  /\ warning = "none"
  /\ pc = "idle"
  /\ is_cancelled = FALSE
  /\ max_workers = 1
  /\ images = {}
  /\ wpc = [p \in Files |-> "none"]
  /\ res = [p \in Files |-> "none"]
  /\ numThreads = 0
  /\ idle = 0
  /\ yielded = {}
  /\ cur = 0
  /\ processed_count = 0
  /\ total_resized = 0
  /\ total_skipped = 0
  /\ events = << >>
  /\ collected = [p \in Files |-> 0]
  /\ fs0 = fs
  /\ cancel_at = NotCancelled
  /\ runs = 0
  /\ folder_input = ""

\* ------------------------------------------------------------ ImageProcessor
\* find_images, lines 107-114: the files under the root with a supported suffix
find_images(folder) ==
  { p \in Files : folder[file_path(p)] # Absent /\ Suffix(p) \in SUPPORTED_FORMATS }

total_files == Cardinality(images)

Running == { p \in Files : wpc[p] \in {"open", "save", "unlink"} }

\* process_image, lines 49-100: the paths a running call reads, writes or
\* deletes at its position (resize loads the pixels of the original, save
\* writes the output, the deletion tests the output and unlinks the original)
AccessedPaths(p) ==
  IF wpc[p] = "open" THEN {file_path(p)}
  ELSE IF wpc[p] \in {"save", "unlink"} THEN {file_path(p), output_path(p)}
  ELSE {}

\* process_image returns: the future completes and the pool thread releases
\* the idle semaphore (concurrent.futures.thread._worker)
Return(p, value) ==
  /\ res' = [res EXCEPT ![p] = value]
  /\ wpc' = [wpc EXCEPT ![p] = "done"]
  /\ idle' = idle + 1

\* A pool thread takes the oldest work item of the queue and calls process_image
WorkerGet(p) ==
  /\ wpc[p] = "queued"
  /\ \A q \in Files : wpc[q] = "queued" => p <= q
  /\ Cardinality(Running) < numThreads
  /\ wpc' = [wpc EXCEPT ![p] = "open"]
  /\ UNCHANGED << fs, controls, warning, pc, is_cancelled, max_workers, images,
                  res, numThreads, idle, yielded, cur, processed_count,
                  total_resized, total_skipped, events, collected, fs0, cancel_at,
                  runs, folder_input >>

\* ProcessOpen without the return of line 56: an image within the limit is
\* converted like any other
ProcessOpen_AlwaysConverts(p) ==
  /\ wpc[p] = "open"
  /\ IF fs[file_path(p)] \in {Absent, Corrupt}
       THEN Return(p, "Error")
       ELSE /\ wpc' = [wpc EXCEPT ![p] = "save"]
            /\ UNCHANGED << res, idle >>
  /\ UNCHANGED << fs, controls, warning, pc, is_cancelled, max_workers, images,
                  numThreads, yielded, cur, processed_count, total_resized,
                  total_skipped, events, collected, fs0, cancel_at,
                  runs, folder_input >>

\* process_image, lines 49-56: Image.open, the size, the threshold test
ProcessOpen(p) ==
  /\ wpc[p] = "open"
  /\ IF fs[file_path(p)] \in {Absent, Corrupt}
       THEN Return(p, "Error")        \* Image.open raises
       ELSE IF WithinLimit(fs[file_path(p)])
         THEN Return(p, "Skipped")
         ELSE /\ wpc' = [wpc EXCEPT ![p] = "save"]
              /\ UNCHANGED << res, idle >>
  /\ UNCHANGED << fs, controls, warning, pc, is_cancelled, max_workers, images,
                  numThreads, yielded, cur, processed_count, total_resized,
                  total_skipped, events, collected, fs0, cancel_at,
                  runs, folder_input >>

\* ProcessSave with the original removed before the output is written
ProcessSave_UnlinkFirst(p) ==
  /\ wpc[p] = "save"
  /\ \/ /\ Return(p, "Error")
        /\ fs' = [fs EXCEPT ![file_path(p)] = Absent]
     \/ /\ NewSize(fs[file_path(p)]).w > 0
        /\ NewSize(fs[file_path(p)]).h > 0
        /\ fs' = [fs EXCEPT ![output_path(p)] = NewSize(fs[file_path(p)]),
                            ![file_path(p)] = Absent]
        /\ wpc' = [wpc EXCEPT ![p] = "unlink"]
        /\ UNCHANGED << res, idle >>
  /\ UNCHANGED << controls, warning, pc, is_cancelled, max_workers, images,
                  numThreads, yielded, cur, processed_count, total_resized,
                  total_skipped, events, collected, fs0, cancel_at,
                  runs, folder_input >>

\* ProcessSave outside the try of line 48: an exception of resize or save
\* leaves process_image and becomes the exception of the future
ProcessSave_Raises(p) ==
  /\ wpc[p] = "save"
  /\ \/ /\ Return(p, "Raised")
        /\ UNCHANGED fs
     \/ /\ NewSize(fs[file_path(p)]).w > 0
        /\ NewSize(fs[file_path(p)]).h > 0
        /\ fs' = [fs EXCEPT ![output_path(p)] = NewSize(fs[file_path(p)])]
        /\ wpc' = [wpc EXCEPT ![p] = "unlink"]
        /\ UNCHANGED << res, idle >>
  /\ UNCHANGED << controls, warning, pc, is_cancelled, max_workers, images,
                  numThreads, yielded, cur, processed_count, total_resized,
                  total_skipped, events, collected, fs0, cancel_at,
                  runs, folder_input >>

\* process_image, lines 65-96: resize and save as WebP at output_path
ProcessSave(p) ==
  /\ wpc[p] = "save"
  /\ \/ /\ Return(p, "Error")   \* resize or save raises
        /\ UNCHANGED fs
     \/ /\ LET new == NewSize(fs[file_path(p)])
           IN  /\ new.w > 0     \* resize raises on an empty size
               /\ new.h > 0
               /\ fs' = [fs EXCEPT ![output_path(p)] = new]
        /\ wpc' = [wpc EXCEPT ![p] = "unlink"]
        /\ UNCHANGED << res, idle >>
  /\ UNCHANGED << controls, warning, pc, is_cancelled, max_workers, images,
                  numThreads, yielded, cur, processed_count, total_resized,
                  total_skipped, events, collected, fs0, cancel_at,
                  runs, folder_input >>

\* process_image, lines 98-102: delete the original, return the success
ProcessUnlink(p) ==
  /\ wpc[p] = "unlink"
  /\ IF output_path(p) # file_path(p) /\ fs[output_path(p)] # Absent
       THEN \/ /\ fs' = [fs EXCEPT ![file_path(p)] = Absent]
               /\ Return(p, "Resized")
            \/ /\ Return(p, "Error")   \* unlink raises
               /\ UNCHANGED fs
       ELSE /\ Return(p, "Resized")
            /\ UNCHANGED fs
  /\ UNCHANGED << controls, warning, pc, is_cancelled, max_workers, images,
                  numThreads, yielded, cur, processed_count, total_resized,
                  total_skipped, events, collected, fs0, cancel_at,
                  runs, folder_input >>

\* ---------------------------------------------------------- ProcessingThread
Emit(es) == events' = events \o es

\* shutdown(wait=False) without cancel_futures: the queue is left as it is
CancelFutures_None(w) == w

\* ThreadPoolExecutor.shutdown(cancel_futures=True): the queue is drained and
\* the futures of the work items no thread has taken are cancelled
CancelFutures(w) == [p \in Files |-> IF w[p] = "queued" THEN "cancelled" ELSE w[p]]

\* RunScan without the return of line 141: with no image found, finished is
\* emitted and the run goes on to the pool and the second emit
RunScan_NoReturn ==
  /\ pc = "scan"
  /\ \/ /\ pc' = "fatal"
        /\ Emit(<< Log("Scanning") >>)
        /\ UNCHANGED << images, wpc >>
     \/ /\ find_images(fs) = {}
        /\ images' = {}
        /\ Emit(<< Log("Scanning"), Log("NoImages"), Finished(0, 0, 0),
                   Log("Found"), Log("Workers") >>)
        /\ pc' = "exit"
        /\ UNCHANGED wpc
     \/ /\ find_images(fs) # {}
        /\ images' = find_images(fs)
        /\ Emit(<< Log("Scanning"), Log("Found"), Log("Workers") >>)
        /\ wpc' = [p \in Files |->
                     IF p \in find_images(fs) THEN "unsubmitted" ELSE "none"]
        /\ pc' = "submit"
  /\ UNCHANGED << fs, controls, warning, is_cancelled, max_workers, res,
                  numThreads, idle, yielded, cur, processed_count,
                  total_resized, total_skipped, collected, fs0, cancel_at,
                  runs, folder_input >>

\* run, lines 132-149: scan; nothing found, or the counters set up
RunScan ==
  /\ pc = "scan"
  /\ \/ /\ pc' = "fatal"      \* find_images raises
        /\ Emit(<< Log("Scanning") >>)
        /\ UNCHANGED << images, wpc >>
     \/ /\ find_images(fs) = {}
        /\ images' = {}
        /\ Emit(<< Log("Scanning"), Log("NoImages"), Finished(0, 0, 0) >>)
        /\ pc' = "done"
        /\ UNCHANGED wpc
     \/ /\ find_images(fs) # {}
        /\ images' = find_images(fs)
        /\ Emit(<< Log("Scanning"), Log("Found"), Log("Workers") >>)
        /\ wpc' = [p \in Files |->
                     IF p \in find_images(fs) THEN "unsubmitted" ELSE "none"]
        /\ pc' = "submit"
  /\ UNCHANGED << fs, controls, warning, is_cancelled, max_workers, res,
                  numThreads, idle, yielded, cur, processed_count,
                  total_resized, total_skipped, collected, fs0, cancel_at,
                  runs, folder_input >>

\* RunFatal with the finished signal forgotten in the exception handler
RunFatal_NoFinished ==
  /\ pc = "fatal"
  /\ Emit(<< Log("Fatal"), Log("Traceback") >>)
  /\ pc' = "done"
  /\ UNCHANGED << fs, controls, warning, is_cancelled, max_workers, images,
                  wpc, res, numThreads, idle, yielded, cur, processed_count,
                  total_resized, total_skipped, collected, fs0, cancel_at,
                  runs, folder_input >>

\* run, lines 186-189: the handler of an exception of run
RunFatal ==
  /\ pc = "fatal"
  /\ Emit(<< Log("Fatal"), Log("Traceback"), Finished(0, 0, 0) >>)
  /\ pc' = "done"
  /\ UNCHANGED << fs, controls, warning, is_cancelled, max_workers, images,
                  wpc, res, numThreads, idle, yielded, cur, processed_count,
                  total_resized, total_skipped, collected, fs0, cancel_at,
                  runs, folder_input >>

\* RunSubmit on an executor that starts a thread per work item, whatever
\* max_workers is
RunSubmit_Unbounded(p) ==
  /\ pc = "submit"
  /\ wpc[p] = "unsubmitted"
  /\ \A q \in Files : wpc[q] = "unsubmitted" => p <= q
  /\ wpc' = [wpc EXCEPT ![p] = "queued"]
  /\ numThreads' = numThreads + 1
  /\ UNCHANGED idle
  /\ pc' = IF \E q \in Files : q # p /\ wpc[q] = "unsubmitted"
             THEN "submit" ELSE "collect"
  /\ UNCHANGED << fs, controls, warning, is_cancelled, max_workers, images,
                  res, yielded, cur, processed_count, total_resized,
                  total_skipped, events, collected, fs0, cancel_at,
                  runs, folder_input >>

\* run, lines 153-156: executor.submit of the next image; the executor
\* starts another thread when none is idle and fewer than max_workers exist
RunSubmit(p) ==
  /\ pc = "submit"
  /\ wpc[p] = "unsubmitted"
  /\ \A q \in Files : wpc[q] = "unsubmitted" => p <= q
  /\ wpc' = [wpc EXCEPT ![p] = "queued"]
  /\ IF idle > 0
       THEN idle' = idle - 1 /\ UNCHANGED numThreads
       ELSE /\ numThreads' = IF numThreads < max_workers
                               THEN numThreads + 1 ELSE numThreads
            /\ UNCHANGED idle
  /\ pc' = IF \E q \in Files : q # p /\ wpc[q] = "unsubmitted"
             THEN "submit" ELSE "collect"
  /\ UNCHANGED << fs, controls, warning, is_cancelled, max_workers, images,
                  res, yielded, cur, processed_count, total_resized,
                  total_skipped, events, collected, fs0, cancel_at,
                  runs, folder_input >>

\* RunLoopHead without the is_cancelled test
RunLoopHead_NoCancelTest(p) ==
  /\ pc = "collect"
  /\ p \in images \ yielded
  /\ wpc[p] = "done"
  /\ yielded' = yielded \cup {p}
  /\ cur' = p
  /\ pc' = "handle"
  /\ UNCHANGED << fs, controls, warning, is_cancelled, max_workers, images,
                  wpc, res, numThreads, idle, processed_count, total_resized,
                  total_skipped, events, collected, fs0, cancel_at,
                  runs, folder_input >>

\* RunLoopHead without the break of line 163: the cancellation is logged and
\* the pool shut down, and the iteration goes on to count its future
RunLoopHead_NoBreak(p) ==
  /\ pc = "collect"
  /\ p \in images \ yielded
  /\ wpc[p] = "done"
  /\ IF is_cancelled
       THEN /\ wpc' = CancelFutures(wpc)
            /\ Emit(<< Log("Cancelled") >>)
       ELSE UNCHANGED << wpc, events >>
  /\ yielded' = yielded \cup {p}
  /\ cur' = p
  /\ pc' = "handle"
  /\ UNCHANGED << fs, controls, warning, is_cancelled, max_workers, images,
                  res, numThreads, idle, processed_count, total_resized,
                  total_skipped, collected, fs0, cancel_at,
                  runs, folder_input >>

\* run, lines 159-163: as_completed yields a completed future; the
\* is_cancelled test at the head of the iteration
RunLoopHead(p) ==
  /\ pc = "collect"
  /\ p \in images \ yielded
  /\ wpc[p] = "done"
  /\ IF is_cancelled
       THEN /\ wpc' = CancelFutures(wpc)
            /\ Emit(<< Log("Cancelled") >>)
            /\ pc' = "exit"
            /\ UNCHANGED << yielded, cur >>
       ELSE /\ yielded' = yielded \cup {p}
            /\ cur' = p
            /\ pc' = "handle"
            /\ UNCHANGED << wpc, events >>
  /\ UNCHANGED << fs, controls, warning, is_cancelled, max_workers, images,
                  res, numThreads, idle, processed_count, total_resized,
                  total_skipped, collected, fs0, cancel_at,
                  runs, folder_input >>

\* RunHandle with the progress emitted from the count before its increment
RunHandle_StaleCount ==
  /\ pc = "handle"
  /\ processed_count' = processed_count + 1
  /\ IF res[cur] = "Resized"
       THEN total_resized' = total_resized + 1 /\ UNCHANGED total_skipped
       ELSE total_skipped' = total_skipped + 1 /\ UNCHANGED total_resized
  /\ Emit(<< Log("Outcome"), Progress(processed_count, total_files) >>)
  /\ collected' = [collected EXCEPT ![cur] = @ + 1]
  /\ cur' = 0
  /\ pc' = IF yielded = images THEN "exit" ELSE "collect"
  /\ UNCHANGED << fs, controls, warning, is_cancelled, max_workers, images,
                  wpc, res, numThreads, idle, yielded, fs0, cancel_at,
                  runs, folder_input >>

\* RunHandle with a failed file ending the loop instead of being counted on
RunHandle_AbortOnError ==
  /\ pc = "handle"
  /\ processed_count' = processed_count + 1
  /\ IF res[cur] = "Resized"
       THEN total_resized' = total_resized + 1 /\ UNCHANGED total_skipped
       ELSE total_skipped' = total_skipped + 1 /\ UNCHANGED total_resized
  /\ Emit(<< Log("Outcome"), Progress(processed_count + 1, total_files) >>)
  /\ collected' = [collected EXCEPT ![cur] = @ + 1]
  /\ cur' = 0
  /\ pc' = IF yielded = images \/ res[cur] = "Error" THEN "exit" ELSE "collect"
  /\ UNCHANGED << fs, controls, warning, is_cancelled, max_workers, images,
                  wpc, res, numThreads, idle, yielded, fs0, cancel_at,
                  runs, folder_input >>

\* RunHandle with the arguments of progress_update.emit swapped
RunHandle_SwappedProgress ==
  /\ pc = "handle"
  /\ processed_count' = processed_count + 1
  /\ IF res[cur] = "Resized"
       THEN total_resized' = total_resized + 1 /\ UNCHANGED total_skipped
       ELSE total_skipped' = total_skipped + 1 /\ UNCHANGED total_resized
  /\ Emit(<< Log("Outcome"), Progress(total_files, processed_count + 1) >>)
  /\ collected' = [collected EXCEPT ![cur] = @ + 1]
  /\ cur' = 0
  /\ pc' = IF yielded = images THEN "exit" ELSE "collect"
  /\ UNCHANGED << fs, controls, warning, is_cancelled, max_workers, images,
                  wpc, res, numThreads, idle, yielded, fs0, cancel_at,
                  runs, folder_input >>

\* RunHandle with the error result counted as processed but in neither bucket
RunHandle_ErrorUncounted ==
  /\ pc = "handle"
  /\ processed_count' = processed_count + 1
  /\ IF res[cur] = "Resized"
       THEN total_resized' = total_resized + 1 /\ UNCHANGED total_skipped
       ELSE IF res[cur] = "Skipped"
         THEN total_skipped' = total_skipped + 1 /\ UNCHANGED total_resized
         ELSE UNCHANGED << total_resized, total_skipped >>
  /\ Emit(<< Log("Outcome"), Progress(processed_count + 1, total_files) >>)
  /\ collected' = [collected EXCEPT ![cur] = @ + 1]
  /\ cur' = 0
  /\ pc' = IF yielded = images THEN "exit" ELSE "collect"
  /\ UNCHANGED << fs, controls, warning, is_cancelled, max_workers, images,
                  wpc, res, numThreads, idle, yielded, fs0, cancel_at,
                  runs, folder_input >>

\* run, lines 165-181: count the outcome, log it, emit the progress
RunHandle ==
  /\ pc = "handle"
  /\ processed_count' = processed_count + 1
  /\ IF res[cur] = "Resized"
       THEN total_resized' = total_resized + 1 /\ UNCHANGED total_skipped
       ELSE total_skipped' = total_skipped + 1 /\ UNCHANGED total_resized
  /\ Emit(<< Log("Outcome"), Progress(processed_count + 1, total_files) >>)
  /\ collected' = [collected EXCEPT ![cur] = @ + 1]
  /\ cur' = 0
  /\ pc' = IF yielded = images THEN "exit" ELSE "collect"
  /\ UNCHANGED << fs, controls, warning, is_cancelled, max_workers, images,
                  wpc, res, numThreads, idle, yielded, fs0, cancel_at,
                  runs, folder_input >>

\* RunExit waiting for every submitted work item to have run, the cancelled
\* ones too
RunExit_WaitsForCancelled ==
  /\ pc = "exit"
  /\ \A p \in Files : wpc[p] \in {"none", "done"}
  /\ Emit(<< Finished(processed_count, total_resized, total_skipped) >>)
  /\ pc' = "done"
  /\ UNCHANGED << fs, controls, warning, is_cancelled, max_workers, images,
                  wpc, res, numThreads, idle, yielded, cur, processed_count,
                  total_resized, total_skipped, collected, fs0, cancel_at,
                  runs, folder_input >>

\* RunExit without the join of the pool's threads: finished is emitted as soon
\* as the loop is left
RunExit_NoJoin ==
  /\ pc = "exit"
  /\ Emit(<< Finished(processed_count, total_resized, total_skipped) >>)
  /\ pc' = "done"
  /\ UNCHANGED << fs, controls, warning, is_cancelled, max_workers, images,
                  wpc, res, numThreads, idle, yielded, cur, processed_count,
                  total_resized, total_skipped, collected, fs0, cancel_at,
                  runs, folder_input >>

\* run, lines 151 and 184: the with block is left (shutdown(wait=True) joins
\* the pool's threads), then the finished signal
RunExit ==
  /\ pc = "exit"
  /\ \A p \in Files : wpc[p] \in {"none", "done", "cancelled"}
  /\ Emit(<< Finished(processed_count, total_resized, total_skipped) >>)
  /\ pc' = "done"
  /\ UNCHANGED << fs, controls, warning, is_cancelled, max_workers, images,
                  wpc, res, numThreads, idle, yielded, cur, processed_count,
                  total_resized, total_skipped, collected, fs0, cancel_at,
                  runs, folder_input >>

\* cancel, lines 191-193 (closeEvent calls it while the thread is running)
cancel ==
  /\ pc \notin {"idle", "done"}
  /\ ~is_cancelled
  /\ is_cancelled' = TRUE
  /\ cancel_at' = [collected |-> processed_count, tested |-> Cardinality(yielded)]
  /\ UNCHANGED << fs, controls, warning, pc, max_workers, images, wpc, res,
                  numThreads, idle, yielded, cur, processed_count,
                  total_resized, total_skipped, events, collected, fs0,
                  runs, folder_input >>

\* ----------------------------------------------------------------- ReSizerApp
Folders == {"", "missing", "root"}

\* start_processing without the two tests of lines 312-318: a thread is
\* started whatever folder_input holds
start_processing_NoValidation(folder_path) ==
  /\ controls
  /\ ~is_cancelled
  /\ folder_input' = folder_path
  /\ runs < MaxRuns
  /\ runs' = runs + 1
  /\ warning' = "none"
  /\ controls' = FALSE
  /\ events' = << >>
  /\ is_cancelled' = FALSE
  /\ max_workers' \in 1 .. MaxWorkers
  /\ images' = {}
  /\ wpc' = [p \in Files |-> "none"]
  /\ res' = [p \in Files |-> "none"]
  /\ numThreads' = 0
  /\ idle' = 0
  /\ yielded' = {}
  /\ cur' = 0
  /\ processed_count' = 0
  /\ total_resized' = 0
  /\ total_skipped' = 0
  /\ collected' = [p \in Files |-> 0]
  /\ fs0' = fs
  /\ cancel_at' = NotCancelled
  /\ pc' = "scan"
  /\ UNCHANGED fs

\* start_processing without lines 320-323: the controls stay enabled while
\* the thread runs
start_processing_ControlsStayEnabled(folder_path) ==
  /\ controls
  /\ ~is_cancelled
  /\ folder_input' = folder_path
  /\ IF folder_path = ""
       THEN /\ warning' = "No Folder"
            /\ UNCHANGED << pc, is_cancelled, max_workers, images,
                            wpc, res, numThreads, idle, yielded, cur,
                            processed_count, total_resized, total_skipped,
                            events, collected, fs0, cancel_at, runs >>
       ELSE IF folder_path = "missing"
         THEN /\ warning' = "Invalid Folder"
              /\ UNCHANGED << pc, is_cancelled, max_workers, images,
                              wpc, res, numThreads, idle, yielded, cur,
                              processed_count, total_resized, total_skipped,
                              events, collected, fs0, cancel_at, runs >>
         ELSE /\ runs < MaxRuns
              /\ runs' = runs + 1
              /\ warning' = "none"
              /\ events' = << >>
              /\ is_cancelled' = FALSE
              /\ max_workers' \in 1 .. MaxWorkers
              /\ images' = {}
              /\ wpc' = [p \in Files |-> "none"]
              /\ res' = [p \in Files |-> "none"]
              /\ numThreads' = 0
              /\ idle' = 0
              /\ yielded' = {}
              /\ cur' = 0
              /\ processed_count' = 0
              /\ total_resized' = 0
              /\ total_skipped' = 0
              /\ collected' = [p \in Files |-> 0]
              /\ fs0' = fs
              /\ cancel_at' = NotCancelled
              /\ pc' = "scan"
  /\ UNCHANGED << fs, controls >>

\* start_processing, lines 308-336, the slot of the start button: it runs only
\* while the button is enabled and the window has not been closed (closeEvent
\* is the one caller of cancel and ends the application). A rejected request
\* changes nothing but the warning; an accepted one disables the controls,
\* clears the log and starts a new ProcessingThread.
start_processing(folder_path) ==
  /\ controls
  /\ ~is_cancelled
  /\ folder_input' = folder_path
  /\ IF folder_path = ""
       THEN /\ warning' = "No Folder"
            /\ UNCHANGED << controls, pc, is_cancelled, max_workers, images,
                            wpc, res, numThreads, idle, yielded, cur,
                            processed_count, total_resized, total_skipped,
                            events, collected, fs0, cancel_at, runs >>
       ELSE IF folder_path = "missing"
         THEN /\ warning' = "Invalid Folder"
              /\ UNCHANGED << controls, pc, is_cancelled, max_workers, images,
                              wpc, res, numThreads, idle, yielded, cur,
                              processed_count, total_resized, total_skipped,
                              events, collected, fs0, cancel_at, runs >>
         ELSE /\ runs < MaxRuns
              /\ runs' = runs + 1
              /\ warning' = "none"
              /\ controls' = FALSE
              /\ events' = << >>
              /\ is_cancelled' = FALSE
              /\ max_workers' \in 1 .. MaxWorkers
              /\ images' = {}
              /\ wpc' = [p \in Files |-> "none"]
              /\ res' = [p \in Files |-> "none"]
              /\ numThreads' = 0
              /\ idle' = 0
              /\ yielded' = {}
              /\ cur' = 0
              /\ processed_count' = 0
              /\ total_resized' = 0
              /\ total_skipped' = 0
              /\ collected' = [p \in Files |-> 0]
              /\ fs0' = fs
              /\ cancel_at' = NotCancelled
              /\ pc' = "scan"
  /\ UNCHANGED fs

\* processing_finished, lines 352-357: the slot of the finished signal
processing_finished ==
  /\ pc = "done"
  /\ ~controls
  /\ controls' = TRUE
  /\ UNCHANGED << fs, warning, pc, is_cancelled, max_workers, images, wpc, res,
                  numThreads, idle, yielded, cur, processed_count,
                  total_resized, total_skipped, events, collected, fs0, cancel_at,
                  runs, folder_input >>

Next ==
  \/ \E folder_path \in Folders : start_processing(folder_path)
  \/ RunScan
  \/ RunFatal
  \/ \E p \in Files : RunSubmit(p)
  \/ \E p \in Files : WorkerGet(p)
  \/ \E p \in Files : ProcessOpen(p)
  \/ \E p \in Files : ProcessSave(p)
  \/ \E p \in Files : ProcessUnlink(p)
  \/ \E p \in Files : RunLoopHead(p)
  \/ RunHandle
  \/ RunExit
  \/ cancel
  \/ processing_finished

Spec == Init /\ [][Next]_vars

\* ------------------------------------------------- one call of process_image
\* The sides an image is drawn from, around the limit and far from it
Sides == {1, 2050, 2160, 3839, 3840, 3841, 4000, 4320, 7680}

WideSizes == { [w |-> a, h |-> b] : a \in Sides, b \in Sides }

\* A run over a folder holding file 1 alone, of any size, at the moment a
\* pool thread has taken its work item
ImageInit ==
  /\ \E img \in WideSizes \cup {Corrupt} :
       fs = [path \in AllPaths |-> IF path = file_path(1) THEN img ELSE Absent]
  /\ controls = FALSE
  /\ warning = "none"
  /\ pc = "collect"
  /\ is_cancelled = FALSE
  /\ max_workers = 1
  /\ images = {1}
  /\ wpc = [p \in Files |-> IF p = 1 THEN "open" ELSE "none"]
  /\ res = [p \in Files |-> "none"]
  /\ numThreads = 1
  /\ idle = 0
  /\ yielded = {}
  /\ cur = 0
  /\ processed_count = 0
  /\ total_resized = 0
  /\ total_skipped = 0
  /\ events = << Log("Scanning"), Log("Found"), Log("Workers") >>
  /\ collected = [p \in Files |-> 0]
  /\ fs0 = fs
  /\ cancel_at = NotCancelled
  /\ runs = 1
  /\ folder_input = "root"

ImageNext ==
  \/ \E p \in Files : ProcessOpen(p)
  \/ \E p \in Files : ProcessSave(p)
  \/ \E p \in Files : ProcessUnlink(p)

ImageSpec == ImageInit /\ [][ImageNext]_vars

\* the steps of the QThread that executes run
RunStep ==
  \/ RunScan
  \/ RunFatal
  \/ \E p \in Files : RunSubmit(p)
  \/ \E p \in Files : RunLoopHead(p)
  \/ RunHandle
  \/ RunExit

\* the steps of the pool thread that executes the work item of file p
WorkerStep(p) ==
  \/ WorkerGet(p)
  \/ ProcessOpen(p)
  \/ ProcessSave(p)
  \/ ProcessUnlink(p)

\* The operating system schedules every thread that can run, and every
\* call of the codec and of the filesystem returns.  The user's actions
\* (start_processing, cancel) and the GUI's slot are under no obligation.
\* A start_processing resets everything of the run before it but the folder,
\* so the progress of a run is that of the first run of a session: the steps
\* of Next with start_processing taken before the first thread is created.
FirstRunNext ==
  \/ runs = 0 /\ \E folder_path \in Folders : start_processing(folder_path)
  \/ RunStep
  \/ \E p \in Files : WorkerStep(p)
  \/ cancel
  \/ processing_finished

FairSpec ==
  /\ Init /\ [][FirstRunNext]_vars
  /\ WF_vars(RunStep)
  /\ \A p \in Files : WF_vars(WorkerStep(p))

TypeOK ==
  /\ pc \in {"idle", "scan", "fatal", "submit", "collect", "handle", "exit", "done"}
  /\ images \subseteq Files
  /\ numThreads \in 0 .. max_workers
  /\ runs \in 0 .. MaxRuns
  /\ folder_input \in Folders

\* ==================================================================== claims
EventsAt(t) == { i \in DOMAIN events : events[i].type = t }

IsProgress(e) == e.type = "progress"

ProgressEvents == SelectSeq(events, IsProgress)

FinishedEvent == events[CHOOSE i \in EventsAt("finished") : TRUE]

Logged(m) == \E i \in DOMAIN events : events[i] = Log(m)

\* C1: the finished signal is emitted exactly once per run of the thread
\* (none before the run ends, one when it has ended), and it is the last
\* event: no outcome log line and no progress_update follows it.
C1_FinishedOnce ==
  /\ Cardinality(EventsAt("finished")) = IF pc = "done" THEN 1 ELSE 0
  /\ \A i \in EventsAt("finished") : \A j \in DOMAIN events :
       j > i => events[j] # Log("Outcome") /\ events[j].type # "progress"

\* a cancelled run that had collected outcomes has ended
C1_Witness ==
  /\ pc = "done"
  /\ Logged("Cancelled")
  /\ processed_count >= 1
  /\ Cardinality(EventsAt("finished")) = 1

\* C2: no path is collected twice and the progress events count 1, 2, ...
\* with total = N; a run with N >= 1 files in which cancel was never called
\* ends with one outcome per discovered path, N progress events and
\* finished reporting processed = N.
C2_OneOutcomePerPath ==
  /\ \A p \in Files : collected[p] <= 1
  /\ \A i \in 1 .. Len(ProgressEvents) :
       ProgressEvents[i].a = i /\ ProgressEvents[i].b = total_files
  /\ (pc = "done" /\ cancel_at = NotCancelled /\ images # {}) =>
       /\ \A p \in Files : collected[p] = IF p \in images THEN 1 ELSE 0
       /\ Len(ProgressEvents) = total_files
       /\ FinishedEvent.a = total_files

\* two files went through a pool of two threads without a cancel
C2_Witness ==
  /\ pc = "done"
  /\ cancel_at = NotCancelled
  /\ total_files >= 2
  /\ max_workers = 2
  /\ Len(ProgressEvents) = total_files

WithResult(v) == { p \in images : res[p] = v }

\* a run over N >= 1 files has ended, cancel was never called, and exactly
\* one file made process_image fail
OneFailureRun ==
  /\ pc = "done"
  /\ cancel_at = NotCancelled
  /\ images # {}
  /\ Cardinality(WithResult("Error")) = 1

\* The finished signal carries (processed, resized, skipped): a count of
\* failed files in it is what the other two leave of processed.
totalFailed(e) == e.a - e.b - e.c

\* C3 as stated: with exactly one failing file and no cancel the summary
\* has totalCompleted = N and totalFailed = 1.
C3_Original ==
  OneFailureRun => FinishedEvent.a = total_files /\ totalFailed(FinishedEvent) = 1

\* C3 amended: with exactly one failing file and no cancel, finished reports
\* processed = N with the failing file counted among skipped (no count of
\* failed files exists), and every other file got its outcome.
C3_FailureCountedAsSkipped ==
  OneFailureRun =>
    /\ FinishedEvent.a = total_files
    /\ FinishedEvent.b = Cardinality(WithResult("Resized"))
    /\ FinishedEvent.c = Cardinality(WithResult("Skipped")) + 1
    /\ \A p \in images : collected[p] = 1 /\ res[p] # "none"

\* two files, one of them corrupt and the other resized
C3_Witness ==
  /\ OneFailureRun
  /\ total_files = 2
  /\ \E p \in images : fs0[file_path(p)] = Corrupt
  /\ WithResult("Resized") # {}

\* the run ended with "Processing cancelled." logged before finished and
\* fewer than N outcomes counted
EndedCancelled ==
  /\ FinishedEvent.a < total_files
  /\ \E i \in DOMAIN events :
       /\ events[i] = Log("Cancelled")
       /\ \A j \in EventsAt("finished") : i < j

\* C4 as stated: cancel called when k >= 1 outcomes were counted and not
\* yet all N (the N-th may already be past the loop's is_cancelled test)
\* makes the run end cancelled with processed < N.
C4_Original ==
  (pc = "done" /\ cancel_at.collected >= 1 /\ cancel_at.collected < total_files)
    => EndedCancelled

\* C4 amended: cancel called when k >= 1 outcomes were counted and before
\* the loop has tested is_cancelled for the N-th result makes the run end
\* cancelled with processed < N.
C4_CancelBeforeLastTest ==
  (pc = "done" /\ cancel_at.collected >= 1 /\ cancel_at.tested < total_files)
    => EndedCancelled

\* a run of two files cancelled after its first outcome was counted and
\* before the second result was tested has ended
C4_Witness ==
  /\ pc = "done"
  /\ cancel_at.collected = 1
  /\ cancel_at.tested = 1
  /\ total_files = 2
  /\ processed_count = 1

\* C5: under fair scheduling every started run eventually emits finished,
\* whenever cancel is called or not and whatever files fail.
C5_EventuallyFinished ==
  (pc # "idle") ~> (pc = "done" /\ EventsAt("finished") # {})

\* a run cancelled before its first result was tested, with a failed file,
\* has emitted finished
C5_Witness ==
  /\ pc = "done"
  /\ EventsAt("finished") # {}
  /\ cancel_at = [collected |-> 0, tested |-> 0]
  /\ Logged("Cancelled")
  /\ WithResult("Error") # {}
  /\ \E p \in images : wpc[p] = "cancelled"

\* C6: no two workers running at the same time read, write or delete the
\* same path; in particular two files of one stem (a.jpg, a.png) above the
\* limit are never both at their save of the same output path.
C6_NoSharedPath ==
  \A p \in Running : \A q \in Running :
    p # q => AccessedPaths(p) \cap AccessedPaths(q) = {}

\* C7: at every moment at most max_workers calls of process_image are
\* executing, although all N paths are submitted without waiting.
C7_AtMostMaxWorkers == Cardinality(Running) <= max_workers

\* all files are submitted, max_workers calls are executing and another
\* work item waits in the queue
C7_Witness ==
  /\ pc = "collect"
  /\ total_files > max_workers
  /\ Cardinality(Running) = max_workers
  /\ \E p \in images : wpc[p] = "queued"
  /\ yielded = {}

\* C8: every progress_update(completed, total) has 0 <= completed <= total
\* with total the number of discovered files, and completed never
\* decreases from one event to the next, cancelled or not.
C8_ProgressWithinTotal ==
  \A i \in 1 .. Len(ProgressEvents) :
    /\ 0 <= ProgressEvents[i].a
    /\ ProgressEvents[i].a <= ProgressEvents[i].b
    /\ ProgressEvents[i].b = Cardinality(find_images(fs0))
    /\ i > 1 => ProgressEvents[i - 1].a <= ProgressEvents[i].a

\* a run in which cancel was called has ended with two progress events
C8_Witness ==
  /\ pc = "done"
  /\ is_cancelled
  /\ Len(ProgressEvents) = 2

\* C9: when discovery yields no candidate file, no work item is ever
\* submitted and no progress_update is emitted, and the run ends having
\* emitted exactly the scan line, the no-images line and finished(0, 0, 0).
C9_ZeroFiles ==
  (find_images(fs0) = {} /\ ~Logged("Fatal")) =>
    /\ \A p \in Files : wpc[p] = "none"
    /\ numThreads = 0
    /\ ProgressEvents = << >>
    /\ pc = "done" =>
         events = << Log("Scanning"), Log("NoImages"), Finished(0, 0, 0) >>

\* a run over a folder without candidate files has ended
C9_Witness ==
  /\ pc = "done"
  /\ find_images(fs0) = {}
  /\ ~Logged("Fatal")
  /\ FinishedEvent = Finished(0, 0, 0)

\* C10: for an image whose larger side is at most 3840, process_image
\* never gets to resize, save or delete: it returns the skipped result, the
\* original stays as it was, and the output path is not written (unless by
\* the call of another file of the same stem).
C10_WithinLimitUntouched ==
  \A p \in Files :
    (fs0[file_path(p)] \notin {Absent, Corrupt}
       /\ Max(fs0[file_path(p)].w, fs0[file_path(p)].h) <= 3840) =>
      /\ wpc[p] \notin {"save", "unlink"}
      /\ res[p] \in {"none", "Skipped"}
      /\ wpc[p] = "done" => res[p] = "Skipped"
      /\ fs[file_path(p)] = fs0[file_path(p)]
      /\ (\A q \in images : q # p => output_path(q) # output_path(p)) =>
           fs[output_path(p)] = fs0[output_path(p)]

\* the call for an image of exactly 3840 x 2160 has returned
C10_Witness ==
  \E p \in Files :
    /\ fs0[file_path(p)] = [w |-> 3840, h |-> 2160]
    /\ wpc[p] = "done"
    /\ res[p] = "Skipped"
    /\ fs = fs0

\* ------------------------------------------------------------------------ C11
\* C11: process_image deletes the original only after its output has been
\* written and exists at a different path: a candidate file differs from what
\* the run found only by having been deleted, by a call that returned the
\* success, with the output in place; after an error or a skip the original
\* is as it was
C11_OriginalKept ==
  \A p \in Files :
    /\ fs[file_path(p)] # fs0[file_path(p)] =>
         /\ fs[file_path(p)] = Absent
         /\ wpc[p] = "done"
         /\ res[p] = "Resized"
         /\ output_path(p) # file_path(p)
         /\ fs[output_path(p)] # Absent
         /\ fs[output_path(p)].w <= MAX_DIMENSION
         /\ fs[output_path(p)].h <= MAX_DIMENSION
    /\ res[p] \in {"Error", "Skipped"} =>
         /\ fs[file_path(p)] = fs0[file_path(p)]
         /\ fs[file_path(p)] # Absent

\* one call has deleted its original after the save, another has failed after
\* the threshold test and left its original
C11_Witness ==
  \E p, q \in Files :
    /\ res[p] = "Resized"
    /\ fs[file_path(p)] = Absent
    /\ fs[output_path(p)] = NewSize(fs0[file_path(p)])
    /\ res[q] = "Error"
    /\ fs0[file_path(q)] \in Sizes
    /\ ~WithinLimit(fs0[file_path(q)])
    /\ fs[file_path(q)] = fs0[file_path(q)]

\* ------------------------------------------------------------------------ C12
\* every file find_images discovers in the folder can be read and has its
\* larger side within the limit
AllWithinLimit(folder) ==
  \A p \in find_images(folder) :
    folder[file_path(p)] # Corrupt /\ WithinLimit(folder[file_path(p)])

\* the run has ended with every discovered file collected and none failed
CompletedFailureFree ==
  /\ pc = "done"
  /\ ~Logged("Fatal")
  /\ ~Logged("Cancelled")
  /\ \A p \in images : res[p] \in {"Resized", "Skipped"}

\* C12: a run over a folder in which every candidate file is within the limit,
\* such as the folder a completed, failure-free run has left, transforms and
\* deletes nothing and, when it completes, has skipped every discovered file
C12_RerunSkipsAll ==
  /\ (runs >= 1 /\ AllWithinLimit(fs0)) =>
       /\ fs = fs0
       /\ total_resized = 0
       /\ \A p \in Files : /\ wpc[p] \notin {"save", "unlink"}
                           /\ res[p] \in {"none", "Skipped"}
       /\ (pc = "done" /\ ~Logged("Fatal") /\ ~Logged("Cancelled")) =>
            /\ images = find_images(fs0)
            /\ \A p \in images : res[p] = "Skipped"
            /\ FinishedEvent = Finished(total_files, 0, total_files)
  /\ CompletedFailureFree => AllWithinLimit(fs)

\* the second run, over the folder a first run has left after converting a
\* file, has completed with a file discovered
C12_Witness ==
  /\ runs = 2
  /\ pc = "done"
  /\ \E p \in Files : fs0[output_path(p)] # Absent /\ fs0[file_path(p)] = Absent
  /\ images # {}
  /\ \A p \in images : res[p] = "Skipped"
  /\ fs = fs0

\* ------------------------------------------------------------------------ C13
\* C13: for every image above the limit, the new dimensions have the larger
\* side exactly 3840 and the smaller side the truncated integer value of
\* smaller * 3840 / larger (a square image gives 3840 x 3840, 7680 x 4320
\* gives 3840 x 2160): the output a call has saved has these dimensions
C13_TruncatedSmallerSide ==
  \A p \in Files :
    (wpc[p] = "unlink" \/ res[p] = "Resized") =>
      LET img == fs0[file_path(p)]
      IN  fs[output_path(p)] =
            IF img.w > img.h
              THEN [w |-> MAX_DIMENSION, h |-> (img.h * MAX_DIMENSION) \div img.w]
              ELSE [w |-> (img.w * MAX_DIMENSION) \div img.h, h |-> MAX_DIMENSION]

\* ------------------------------------------------------------------------ C14
\* C14: a start request whose folder path is empty or does not exist is
\* rejected with a warning and nothing else: no ProcessingThread is created or
\* started, no log line, progress or finished event is emitted, the log is not
\* cleared, and the start controls are and stay enabled
C14_InvalidFolderRejected ==
  [][ folder_input' \in {"", "missing"} =>
        /\ warning' = IF folder_input' = "" THEN "No Folder" ELSE "Invalid Folder"
        /\ controls /\ controls'
        /\ UNCHANGED << runs, pc, events, fs, is_cancelled, max_workers, images,
                        wpc, res, numThreads, idle, yielded, cur,
                        processed_count, total_resized, total_skipped,
                        collected, fs0, cancel_at >> ]_vars

\* after a run has ended and its controls are enabled again, a request for a
\* folder that does not exist has been rejected
C14_Witness ==
  /\ folder_input = "missing"
  /\ warning = "Invalid Folder"
  /\ runs = 1
  /\ pc = "done"
  /\ controls
  /\ EventsAt("finished") # {}

\* ------------------------------------------------------------------------ C15
\* C15: process_image never raises: a call that has ended has returned the
\* success, the skip or the error result, and a failure of opening, resizing,
\* saving or deleting is returned as the error result
C15_NeverRaises ==
  \A p \in Files :
    /\ res[p] \in {"none", "Resized", "Skipped", "Error"}
    /\ wpc[p] = "done" <=> res[p] # "none"
    /\ (wpc[p] = "done" /\ fs0[file_path(p)] = Corrupt) => res[p] = "Error"
    /\ (wpc[p] = "done" /\ fs0[file_path(p)] # Corrupt
          /\ ~WithinLimit(fs0[file_path(p)])
          /\ fs[file_path(p)] # Absent) => res[p] = "Error"

\* a call has returned the error result for an image whose new width is 0,
\* which resize refuses
C15_Witness ==
  \E p \in Files :
    /\ wpc[p] = "done"
    /\ res[p] = "Error"
    /\ fs0[file_path(p)] = [w |-> 1, h |-> 7680]
    /\ fs = fs0

\* ------------------------------------------------------------------------ C16
CancelledAt == { i \in DOMAIN events : events[i] = Log("Cancelled") }

\* the completed count of the last progress_update event, 0 if there is none
LastProgress ==
  IF ProgressEvents = << >> THEN 0 ELSE ProgressEvents[Len(ProgressEvents)].a

\* the files whose outcome the loop has counted, with result v or without
Counted(v, with) ==
  { p \in images : collected[p] >= 1 /\ ((res[p] = v) <=> with) }

\* C16: once the loop has seen is_cancelled at the head of an iteration it
\* counts no further outcome: "Processing cancelled." is logged once, only the
\* finished signal follows it, and finished carries processed, resized and
\* skipped as they stood at the last progress_update (zeros if there was none)
C16_CancelledCountsNoMore ==
  /\ Cardinality(CancelledAt) <= 1
  /\ \A i \in CancelledAt :
       /\ pc \in {"exit", "done"}
       /\ \A j \in DOMAIN events : j > i => events[j].type = "finished"
       /\ processed_count = LastProgress
       /\ total_resized = Cardinality(Counted("Resized", TRUE))
       /\ total_skipped = Cardinality(Counted("Resized", FALSE))
       /\ pc = "done" =>
            FinishedEvent = Finished(LastProgress,
                                     Cardinality(Counted("Resized", TRUE)),
                                     Cardinality(Counted("Resized", FALSE)))

\* a cancelled run has ended after one counted outcome, the outcome of
\* another completed call left uncounted
C16_Witness ==
  /\ pc = "done"
  /\ CancelledAt # {}
  /\ LastProgress = 1
  /\ FinishedEvent.a = 1
  /\ \E p \in images : wpc[p] = "done" /\ res[p] = "Resized" /\ collected[p] = 0

\* ------------------------------------------------------------------------ C17
\* C17: after the loop has seen the cancellation and shut the pool down, no
\* work item is left in the queue and none that was queued is ever executed:
\* its future stays cancelled, without a result, and its file is as the run
\* found it; the calls in flight are not interrupted and have returned a
\* result when the run ends
C17_QueuedNeverRun ==
  /\ [](\A p \in Files :
          /\ wpc[p] = "cancelled" =>
               /\ CancelledAt # {}
               /\ res[p] = "none"
               /\ collected[p] = 0
               /\ fs[file_path(p)] = fs0[file_path(p)]
          /\ CancelledAt # {} =>
               /\ wpc[p] \notin {"unsubmitted", "queued"}
               /\ pc = "done" => wpc[p] \in {"none", "done", "cancelled"}
               /\ wpc[p] = "done" => res[p] \in {"Resized", "Skipped", "Error"})
  /\ [][\A p \in Files :
          (wpc[p] = "cancelled" /\ runs' = runs) => wpc'[p] = "cancelled"]_vars

\* a cancelled run has ended: the work item still queued at the shutdown was
\* cancelled and its file, above the limit, is untouched, while another call
\* has converted its file
C17_Witness ==
  /\ pc = "done"
  /\ \E p, q \in images :
       /\ wpc[p] = "cancelled"
       /\ ~WithinLimit(fs0[file_path(p)])
       /\ fs[file_path(p)] = fs0[file_path(p)]
       /\ wpc[q] = "done"
       /\ res[q] = "Resized"

\* ------------------------------------------------------------------------ C18
\* C18: at every moment of a run, so at every progress_update and at finished,
\* processed = resized + skipped: resized counts the collected outcomes that
\* are a successful resize, skipped all the other collected outcomes (within
\* the limit, error), each outcome counted once in exactly one of the two
C18_CountsPartition ==
  /\ processed_count = total_resized + total_skipped
  /\ total_resized = Cardinality(Counted("Resized", TRUE))
  /\ total_skipped = Cardinality(Counted("Resized", FALSE))
  /\ \A p \in Files : collected[p] <= 1
  /\ \A i \in EventsAt("progress") :
       events[i].a = Cardinality({ j \in 1 .. i : events[j] = Log("Outcome") })
  /\ \A i \in EventsAt("finished") :
       /\ events[i].a = events[i].b + events[i].c
       /\ events[i] = Finished(processed_count, total_resized, total_skipped)

\* the finished handler has run for a run of two files, one resized and one
\* whose save failed: finished carried (2, 1, 1)
C18_Witness ==
  /\ pc = "done"
  /\ controls
  /\ FinishedEvent = Finished(2, 1, 1)
  /\ \E p, q \in images :
       /\ res[p] = "Resized"
       /\ res[q] = "Error"
       /\ fs0[file_path(q)] # Corrupt

\* ------------------------------------------------------------------------ C19
\* C19: once the finished signal of a run has been emitted no worker is
\* executing process_image and no work item waits in the queue, and no step
\* changes the folder any more: a cancelled run joins the calls in flight
\* before it emits finished
C19_NoWorkerAtFinished ==
  /\ [](EventsAt("finished") # {} =>
          /\ Running = {}
          /\ \A p \in Files : wpc[p] \in {"none", "done", "cancelled"})
  /\ [][EventsAt("finished") # {} => fs' = fs]_vars

\* a run cancelled before any outcome was counted has emitted finished(0, 0, 0)
\* after both of its calls, run by two pool threads, converted their files
C19_Witness ==
  /\ pc = "done"
  /\ CancelledAt # {}
  /\ FinishedEvent = Finished(0, 0, 0)
  /\ numThreads = 2
  /\ \A p \in Files : wpc[p] = "done" /\ res[p] = "Resized"
  /\ fs # fs0

\* ------------------------------------------------------------------------ C20
\* the run of a ProcessingThread is in progress
InProgress == pc \notin {"idle", "done"}

\* C20: at most one ProcessingThread runs at any time: the controls are
\* disabled as long as a run is in progress, a thread is created only while
\* none is in progress and with the controls disabled from then on, and the
\* controls are enabled again only by processing_finished, after the finished
\* signal of that run
C20_OneRunAtATime ==
  /\ [](InProgress => ~controls)
  /\ [][runs' # runs => (~InProgress /\ controls /\ ~controls' /\ pc' = "scan")]_vars
  /\ [][(~controls /\ controls') =>
          (pc = "done" /\ EventsAt("finished") # {} /\ runs' = runs)]_vars

\* a second run is in progress, started after the first had ended and its
\* finished handler had enabled the controls
C20_Witness ==
  /\ runs = 2
  /\ pc = "collect"
  /\ ~controls
  /\ \E p \in Files : wpc[p] = "save"

====
